---------------------------- MODULE Spec2Model ----------------------------
(***************************************************************************)
(* A model of bot.py: a Telegram bot that downloads media with yt-dlp and  *)
(* relays the file, keeps an in-memory set of users, and lets the operator *)
(* broadcast to that set.                                                  *)
(*                                                                         *)
(* Every handler is a coroutine.  A handler runs without interruption from *)
(* one await to the next; at an await the event loop may run any other     *)
(* handler that is ready (spec section 5: the loop continues processing    *)
(* other users' commands while a download is in flight).  The blocking     *)
(* download_youtube call runs on an executor thread.  Each action below is *)
(* one such uninterrupted stretch of a handler, or the executor thread.    *)
(* How many handlers are in flight together is the framework's choice; the *)
(* model allows any number up to MaxTasks, handlers run one after another  *)
(* included.                                                               *)
(*                                                                         *)
(* Text is modelled as a sequence of string fragments, so that "contains"  *)
(* is something a formula can test.                                        *)
(***************************************************************************)
EXTENDS Integers, Sequences, FiniteSets, Bags, TLC

(***************************************************************************)
(* Bounds of the model.                                                    *)
(***************************************************************************)
\* number of handler invocations that can be in flight at the same time
MaxTasks == 2

(***************************************************************************)
(* Configuration, bot.py lines 8-18.                                       *)
(***************************************************************************)
\* user identifiers are opaque: only equality is ever used on them
ADMIN_ID == "5997715263"
DOWNLOAD_DIR == "./downloads"
MAX_SIZE_MB == 45

OtherUsers == {"1001"}
Users == {ADMIN_ID} \cup OtherUsers

(***************************************************************************)
(* The environment: what users type, and what the extraction library and   *)
(* the file system answer.                                                 *)
(***************************************************************************)
URLS == {"https://youtu.be/a", "https://youtu.be/b"}
Words == {"hello", "world"}
Tokens == URLS \cup Words

\* what can follow /audio: nothing, a URL, a word that is no URL
ArgLists ==
    {<<>>, <<"https://youtu.be/a">>, <<"https://youtu.be/b">>, <<"hello">>}
\* the words of a plain text message: a URL, or a word that is no URL
TextBodies == {<<"https://youtu.be/a">>, <<"hello">>}
\* the operator's broadcast texts
BroadcastArgLists == {<<>>, <<"hello">>, <<"hello", "world">>}

\* info["id"] and info.get("title") of the media a URL resolves to
MediaId(url) == IF url = "https://youtu.be/a" THEN "a" ELSE "b"
Title(url) == IF url = "https://youtu.be/a" THEN "Song A" ELSE "Song B"

\* ydl.prepare_filename(info) under outtmpl DOWNLOAD_DIR/%(id)s.%(ext)s
prepare_filename(url) == <<DOWNLOAD_DIR, MediaId(url), "webm">>
Paths == {prepare_filename(url) : url \in URLS}

\* os.path.getsize(file_path) / (1024 * 1024): media "a" is exactly at the
\* limit, media "b" is just above it
getsize_mb(path) == IF path[2] = "a" THEN MAX_SIZE_MB ELSE MAX_SIZE_MB + 1

\* what the extraction library can raise
ExtractionErrors == {"Video unavailable", "HTTP Error 403"}

\* how one delivery of a broadcast can end
DeliveryOutcomes == {"ok", "Forbidden", "Exception"}

(***************************************************************************)
(* Incoming updates.  via = "command": /cmd followed by words.             *)
(* via = "message": a plain text message (its words), a photo or a video   *)
(* (with an optional caption; <<>> is no caption).                         *)
(***************************************************************************)
Captions == {<<>>, <<"hello">>}

Updates ==
    [sender : Users, via : {"command"}, cmd : {"start", "panel", "stats"},
     words : {<<>>}, caption : {<<>>}]
    \cup
    [sender : Users, via : {"command"}, cmd : {"audio"},
     words : ArgLists, caption : {<<>>}]
    \cup
    [sender : Users, via : {"command"}, cmd : {"broadcast"},
     words : BroadcastArgLists, caption : {<<>>}]
    \cup
    [sender : Users, via : {"message"}, cmd : {"text"},
     words : TextBodies, caption : {<<>>}]
    \cup
    [sender : Users, via : {"message"}, cmd : {"photo", "video"},
     words : {<<>>}, caption : Captions]

NoUpdate == [sender |-> "", via |-> "", cmd |-> "", words |-> <<>>, caption |-> <<>>]

(***************************************************************************)
(* Outbound messages.                                                      *)
(***************************************************************************)
Msg(to, kind, text, n) == [to |-> to, kind |-> kind, text |-> text, n |-> n]

Contains(text, fragment) == \E i \in 1..Len(text) : text[i] = fragment

\* " ".join(context.args)
RECURSIVE Join(_)
Join(words) ==
    IF Len(words) = 0 THEN <<>>
    ELSE IF Len(words) = 1 THEN <<words[1]>>
    ELSE <<words[1], " ">> \o Join(Tail(words))

WelcomeMsg(to) == Msg(to, "reply_text", <<"Welcome to the Premium YouTube Audio Downloader!">>, 0)
InputErrorMsg(to) == Msg(to, "reply_text", <<"Please send a valid YouTube link.">>, 0)
DownloadingMsg(to) == Msg(to, "reply_text", <<"Downloading your track... Please wait...">>, 0)
ErrorMsg(to, e) == Msg(to, "reply_text", <<"Error: ", e>>, 0)
TooLargeMsg(to, size) == Msg(to, "reply_text", <<"File too large (", " MB). Can't send via Telegram.">>, size)
DocumentMsg(to, path, title) == Msg(to, "reply_document", <<path[2], "caption: ", title>>, 0)
PanelMsg(to) == Msg(to, "reply_text", <<"Admin Control Panel">>, 0)
StatsMsg(to, count) == Msg(to, "reply_text", <<"Bot Statistics: Total Users: ", "Admin ID: ", ADMIN_ID>>, count)
BroadcastAckMsg(to) == Msg(to, "reply_text", <<"Broadcast sent successfully!">>, 0)

\* fake_ads, bot.py lines 140-143
fake_ads(words) == <<"Sponsored Update\n\n">> \o Join(words) \o <<"\n\nEnjoy unlimited music">>

DefaultPhotoCaption == <<"New update available! Check it out">>
DefaultVideoCaption == <<"New feature added! Update your bot now">>

(***************************************************************************)
(* State.                                                                  *)
(***************************************************************************)
VARIABLES
    USERS,      \* the module-level set of user ids
    files,      \* the paths that exist under DOWNLOAD_DIR
    tasks,      \* the bag of handler invocations that have not returned yet
    started     \* history: the users from whom a /start was received

vars == <<USERS, files, tasks, started>>

\* context.args: set only by a CommandHandler, None for a MessageHandler
NoArgs == [set |-> FALSE, v |-> <<>>]

\* a handler invocation before its first statement
NewTask ==
    [pc |-> "entered", update |-> NoUpdate, handler |-> "", args |-> NoArgs,
     sent |-> <<>>, extractions |-> 0, fsops |-> 0, url |-> "", path |-> <<>>,
     format |-> "", err |-> "", exc |-> "", visited |-> {}, si_used |-> 0]

\* the handler returned ("done") or an exception left it ("raised")
Finished(r) == r.pc \in {"done", "raised"}

\* the handler invocations in the bag
Running == BagToSet(tasks)

Init ==
    /\ USERS = {}
    /\ files = {}
    /\ tasks = EmptyBag
    /\ started = {}

(***************************************************************************)
(* main, bot.py lines 166-175: the handlers in registration order; the     *)
(* first one whose filter matches the update handles it.                   *)
(***************************************************************************)
Route(u) ==
    IF u.via = "command" /\ u.cmd = "start" THEN "start"
    ELSE IF u.via = "command" /\ u.cmd = "audio" THEN "audio"
    ELSE IF u.via = "message" /\ u.cmd = "text" THEN "audio"
    ELSE IF u.via = "command" /\ u.cmd = "panel" THEN "admin_panel"
    ELSE IF u.via = "command" /\ u.cmd = "stats" THEN "stats"
    ELSE IF u.via = "command" /\ u.cmd = "broadcast" THEN "broadcast"
    ELSE IF u.via = "message" /\ u.cmd \in {"photo", "video"} THEN "broadcast"
    ELSE "none"

\* context.args as the handler sees it: a CommandHandler sets it to the words
\* after the command, a MessageHandler leaves it None
ContextArgs(u) ==
    IF u.via = "command" THEN [set |-> TRUE, v |-> u.words] ELSE NoArgs

\* the handler invocation as it is entered
Enter(u) ==
    [NewTask EXCEPT !.update = u, !.handler = Route(u), !.args = ContextArgs(u)]

(***************************************************************************)
(* start, bot.py lines 22-30.                                              *)
(***************************************************************************)
\* a registry that forgets: start replies but does not add
USERS_add_forgets(users, user_id) == users

\* USERS.add(user_id)
USERS_add(users, user_id) == users \cup {user_id}

start(r) ==
    [r EXCEPT !.sent = <<WelcomeMsg(r.update.sender)>>, !.pc = "done"]

(***************************************************************************)
(* download_youtube, bot.py lines 34-43.                                   *)
(***************************************************************************)
download_format(audio_only) ==
    IF audio_only THEN "bestaudio/best" ELSE "best[ext=mp4]/mp4"

(***************************************************************************)
(* handle_download, bot.py lines 47-78, and audio, lines 82-83.            *)
(***************************************************************************)
\* `context.args is None` instead of `not context.args`
MissingArgs_none_only(args) == ~args.set

\* `not context.args`: None and the empty list are both falsy
MissingArgs(args) == ~args.set \/ args.v = <<>>

\* lines 50-56: up to the await of the "Downloading" reply
handle_download_begin(r, audio_only) ==
    IF MissingArgs(r.args)
    THEN [r EXCEPT !.sent = <<InputErrorMsg(r.update.sender)>>, !.pc = "done"]
    ELSE IF Len(r.args.v) = 0
    THEN [r EXCEPT !.pc = "raised", !.exc = "IndexError"]
    ELSE [r EXCEPT !.url = r.args.v[1],
                   !.format = download_format(audio_only),
                   !.sent = <<DownloadingMsg(r.update.sender)>>,
                   !.pc = "await_ack"]

audio(r) == handle_download_begin(r, TRUE)

\* lines 58-61: loop.run_in_executor(None, download_youtube, url, audio_only)
run_in_executor(r) ==
    [r EXCEPT !.extractions = @ + 1, !.pc = "in_executor"]

\* an except clause that hides the error's text
handle_download_except_generic(r) ==
    [r EXCEPT !.sent = Append(@, ErrorMsg(r.update.sender, "Download failed")),
              !.pc = "done"]

\* lines 62-65: the except clause
handle_download_except(r) ==
    [r EXCEPT !.sent = Append(@, ErrorMsg(r.update.sender, r.err)), !.pc = "done"]

\* lines 67-77: from the executor's result to the await of reply_document
handle_download_deliver(r, onDisk) ==
    IF r.path \notin onDisk
    THEN [r EXCEPT !.fsops = @ + 1, !.pc = "raised", !.exc = "FileNotFoundError"]
    ELSE IF getsize_mb(r.path) > MAX_SIZE_MB
    THEN [r EXCEPT !.fsops = @ + 1,
                   !.sent = Append(@, TooLargeMsg(r.update.sender, getsize_mb(r.path))),
                   !.pc = "done"]
    ELSE [r EXCEPT !.fsops = @ + 2,
                   !.sent = Append(@, DocumentMsg(r.update.sender, r.path, Title(r.url))),
                   !.pc = "await_document"]

\* line 78: os.remove(file_path), reached only when reply_document returned
handle_download_remove(r, onDisk) ==
    IF r.path \in onDisk
    THEN [r EXCEPT !.fsops = @ + 1, !.pc = "done"]
    ELSE [r EXCEPT !.fsops = @ + 1, !.pc = "raised", !.exc = "FileNotFoundError"]

\* reply_document raised: the exception leaves the with block and the handler
handle_download_send_failed(r) ==
    [r EXCEPT !.pc = "raised", !.exc = "TelegramError"]

(***************************************************************************)
(* admin_panel, bot.py lines 87-94, and stats, lines 98-105.               *)
(***************************************************************************)
admin_panel(r) ==
    IF r.update.sender # ADMIN_ID
    THEN [r EXCEPT !.pc = "done"]
    ELSE [r EXCEPT !.sent = <<PanelMsg(r.update.sender)>>, !.pc = "done"]

\* a stats that leaves the operator out of the count
stats_without_admin(r, users) ==
    IF r.update.sender # ADMIN_ID
    THEN [r EXCEPT !.pc = "done"]
    ELSE [r EXCEPT !.sent = <<StatsMsg(r.update.sender, Cardinality(users \ {ADMIN_ID}))>>,
                   !.pc = "done"]

stats(r, users) ==
    IF r.update.sender # ADMIN_ID
    THEN [r EXCEPT !.pc = "done"]
    ELSE [r EXCEPT !.sent = <<StatsMsg(r.update.sender, Cardinality(users))>>,
                   !.pc = "done"]

(***************************************************************************)
(* broadcast, bot.py lines 109-155.                                        *)
(***************************************************************************)
\* lines 113-143: which branch is taken, and what it sends to each user
BroadcastKind(r) ==
    IF r.update.cmd = "photo" THEN "send_photo"
    ELSE IF r.update.cmd = "video" THEN "send_video"
    ELSE IF ~MissingArgs(r.args) THEN "send_message"
    ELSE "none"

BroadcastText(r) ==
    IF r.update.cmd = "photo"
    THEN (IF r.update.caption # <<>> THEN r.update.caption ELSE DefaultPhotoCaption)
    ELSE IF r.update.cmd = "video"
    THEN (IF r.update.caption # <<>> THEN r.update.caption ELSE DefaultVideoCaption)
    ELSE fake_ads(r.args.v)

\* line 154: the reply after the loop
broadcast_ack(r) ==
    [r EXCEPT !.sent = Append(@, BroadcastAckMsg(r.update.sender)), !.pc = "done"]

\* one step of `for uid in USERS`: the set iterator refuses to go on when the
\* set's size differs from the size it had when the loop began; otherwise it
\* yields the next user in the set's order, or ends the loop.  The order of a
\* set is fixed by its contents but unspecified: NextInOrder is some fixed
\* choice.  The result is the state of the handler at its next await (or at
\* its end).
NextInOrder(remaining) == CHOOSE uid \in remaining : TRUE

broadcast_next(r, users) ==
    IF Cardinality(users) # r.si_used
    THEN [r EXCEPT !.pc = "raised", !.exc = "RuntimeError"]
    ELSE IF users \ r.visited = {}
    THEN broadcast_ack(r)
    ELSE LET uid == NextInOrder(users \ r.visited)
         IN  [r EXCEPT !.sent = Append(@, Msg(uid, BroadcastKind(r), BroadcastText(r), 0)),
                       !.visited = @ \cup {uid},
                       !.pc = "await_delivery"]

\* lines 145-152: the delivery returned, or raised Forbidden, or raised
\* another Exception; each except clause is `continue`
broadcast_resume(r, outcome, users) ==
    IF outcome = "ok" THEN broadcast_next(r, users)
    ELSE IF outcome = "Forbidden" THEN broadcast_next(r, users)
    ELSE broadcast_next(r, users)

\* a broadcast without the authorization gate
broadcast_begin_ungated(r, users) ==
    IF BroadcastKind(r) = "none"
    THEN broadcast_ack(r)
    ELSE broadcast_next([r EXCEPT !.si_used = Cardinality(users)], users)

\* lines 110-111, then the entry into the branch's loop
broadcast_begin(r, users) ==
    IF r.update.sender # ADMIN_ID
    THEN [r EXCEPT !.pc = "done"]
    ELSE IF BroadcastKind(r) = "none"
    THEN broadcast_ack(r)
    ELSE broadcast_next([r EXCEPT !.si_used = Cardinality(users)], users)

(***************************************************************************)
(* Actions.                                                                *)
(***************************************************************************)
\* a handler that has finished is discarded before anything else happens:
\* what it did is looked at in the state it finished in
NoneFinished == \A r \in Running : ~Finished(r)

\* handler r is at the await named by pc, and resumes
Resumes(r, pc) == NoneFinished /\ r.pc = pc

\* handler r runs up to its next await, where it is r2
Becomes(r, r2) == tasks' = (tasks (-) SetToBag({r})) (+) SetToBag({r2})

\* a handler is entered and runs up to its first await, where it is r2
Enters(r2) == tasks' = tasks (+) SetToBag({r2})

\* the updates main routes to handler h
UpdatesFor(h) == {u \in Updates : Route(u) = h}
StartUpdates == UpdatesFor("start")
AudioUpdates == UpdatesFor("audio")
AdminPanelUpdates == UpdatesFor("admin_panel")
StatsUpdates == UpdatesFor("stats")
BroadcastUpdates == UpdatesFor("broadcast")

\* the next update is taken: fewer than MaxTasks handlers are in flight
Takes ==
    /\ NoneFinished
    /\ BagCardinality(tasks) < MaxTasks

\* update u is dispatched to handler h
Dispatched(u, h) ==
    /\ Route(u) = h
    /\ started' = IF u.via = "command" /\ u.cmd = "start"
                  THEN started \cup {u.sender} ELSE started

Start ==
    /\ Takes
    /\ \E u \in StartUpdates :
          /\ Dispatched(u, "start")
          /\ USERS' = USERS_add(USERS, u.sender)
          /\ Enters(start(Enter(u)))
          /\ UNCHANGED files

Audio ==
    /\ Takes
    /\ \E u \in AudioUpdates :
          /\ Dispatched(u, "audio")
          /\ Enters(audio(Enter(u)))
          /\ UNCHANGED <<USERS, files>>

AdminPanel ==
    /\ Takes
    /\ \E u \in AdminPanelUpdates :
          /\ Dispatched(u, "admin_panel")
          /\ Enters(admin_panel(Enter(u)))
          /\ UNCHANGED <<USERS, files>>

Stats ==
    /\ Takes
    /\ \E u \in StatsUpdates :
          /\ Dispatched(u, "stats")
          /\ Enters(stats(Enter(u), USERS))
          /\ UNCHANGED <<USERS, files>>

Broadcast ==
    /\ Takes
    /\ \E u \in BroadcastUpdates :
          /\ Dispatched(u, "broadcast")
          /\ Enters(broadcast_begin(Enter(u), USERS))
          /\ UNCHANGED <<USERS, files>>

\* the "Downloading" reply went out: the handler hands download_youtube to the
\* executor and awaits its future
AckSent ==
    \E r \in Running :
        /\ Resumes(r, "await_ack")
        /\ Becomes(r, run_in_executor(r))
        /\ UNCHANGED <<USERS, files, started>>

\* the executor thread: download_youtube wrote the file and returned
DownloadReturned ==
    \E r \in Running :
        /\ Resumes(r, "in_executor")
        /\ r.url \in URLS
        /\ files' = files \cup {prepare_filename(r.url)}
        /\ Becomes(r, [r EXCEPT !.path = prepare_filename(r.url),
                                 !.fsops = @ + 1,
                                 !.pc = "future_ok"])
        /\ UNCHANGED <<USERS, started>>

\* the executor thread: extract_info raised; what is not a URL always does
DownloadRaised ==
    \E r \in Running, e \in ExtractionErrors :
        /\ Resumes(r, "in_executor")
        /\ Becomes(r, [r EXCEPT !.err = e, !.pc = "future_err"])
        /\ UNCHANGED <<USERS, files, started>>

\* the handler resumes with the future's exception
ExtractionFailed ==
    \E r \in Running :
        /\ Resumes(r, "future_err")
        /\ Becomes(r, handle_download_except(r))
        /\ UNCHANGED <<USERS, files, started>>

\* the handler resumes with the future's result
Deliver ==
    \E r \in Running :
        /\ Resumes(r, "future_ok")
        /\ Becomes(r, handle_download_deliver(r, files))
        /\ UNCHANGED <<USERS, files, started>>

\* reply_document returned: the file is removed
DocumentSent ==
    \E r \in Running :
        /\ Resumes(r, "await_document")
        /\ Becomes(r, handle_download_remove(r, files))
        /\ files' = files \ {r.path}
        /\ UNCHANGED <<USERS, started>>

\* reply_document raised
DocumentFailed ==
    \E r \in Running :
        /\ Resumes(r, "await_document")
        /\ Becomes(r, handle_download_send_failed(r))
        /\ UNCHANGED <<USERS, files, started>>

\* one delivery of the broadcast returned or raised
DeliveryEnded ==
    \E r \in Running, outcome \in DeliveryOutcomes :
        /\ Resumes(r, "await_delivery")
        /\ Becomes(r, broadcast_resume(r, outcome, USERS))
        /\ UNCHANGED <<USERS, files, started>>

\* the finished handler's coroutine is discarded
Return ==
    \E r \in Running :
        /\ Finished(r)
        /\ tasks' = tasks (-) SetToBag({r})
        /\ UNCHANGED <<USERS, files, started>>

Next ==
    \/ Start
    \/ Audio
    \/ AdminPanel
    \/ Stats
    \/ Broadcast
    \/ AckSent
    \/ DownloadReturned
    \/ DownloadRaised
    \/ ExtractionFailed
    \/ Deliver
    \/ DocumentSent
    \/ DocumentFailed
    \/ DeliveryEnded
    \/ Return

Spec == Init /\ [][Next]_vars

(***************************************************************************)
(* Properties.  A finished handler is discarded before any other step, so  *)
(* a state in which a handler is Finished is the state it finished in.     *)
(***************************************************************************)
Last(seq) == seq[Len(seq)]

\* the number of documents the handler sent
NumDocs(r) == Cardinality({i \in 1..Len(r.sent) : r.sent[i].kind = "reply_document"})

\* a run of handle_download in which download_youtube returned
Downloaded(r) == r.handler = "audio" /\ r.path # <<>>

\* the handler answered with the input error and did nothing else
InputErrorOnly(r) ==
    /\ r.pc = "done"
    /\ r.sent = <<InputErrorMsg(r.update.sender)>>
    /\ r.extractions = 0
    /\ r.fsops = 0

\* C1: when the extraction returned and the file is at most 45 MB, exactly
\* one document is sent to the requester and, once the handler has finished
\* in whatever way, the local file no longer exists.
C1_DocumentSentAndFileRemoved ==
    \A r \in Running :
        (Downloaded(r) /\ Finished(r) /\ getsize_mb(r.path) <= MAX_SIZE_MB)
            => /\ NumDocs(r) = 1
               /\ r.path \notin files

C4_ExtractionErrorReported ==
    \A r \in Running :
        (r.handler = "audio" /\ r.err # "")
            => /\ r.extractions = 1
               /\ NumDocs(r) = 0
               /\ r.fsops = 0
               /\ r.pc \in {"future_err", "done"}
               /\ r.pc = "done" =>
                    /\ Len(r.sent) = 2
                    /\ r.sent[1] = DownloadingMsg(r.update.sender)
                    /\ r.sent[2].to = r.update.sender
                    /\ r.sent[2].kind = "reply_text"
                    /\ Contains(r.sent[2].text, r.err)

C4_Witness ==
    \E r \in Running :
        /\ r.handler = "audio"
        /\ r.err = "Video unavailable"
        /\ r.pc = "done"

C6_BareUrlDownloads ==
    \A r \in Running :
        (r.update.via = "message" /\ r.update.cmd = "text" /\ r.update.words[1] \in URLS)
            => /\ r.handler = "audio"
               /\ r.url = r.update.words[1]
               /\ r.format = "bestaudio/best"
               /\ r.sent # <<>>
               /\ r.sent[1] = DownloadingMsg(r.update.sender)

\* C7: the registry holds exactly the users who have sent a start; nothing is
\* ever removed from it, and only a start handler changes it.
C7_RegistryIsStarted ==
    /\ [](USERS = started)
    /\ [][/\ USERS \subseteq USERS'
          /\ USERS' # USERS =>
                \E r \in BagToSet(tasks') :
                    /\ r.handler = "start"
                    /\ Finished(r)
                    /\ USERS' = USERS \cup {r.update.sender}]_vars

\* a user who is in the registry (the broadcast in flight has already visited
\* them) sent start again, and the registry still has the size the loop saw
C7_Witness ==
    \E r \in Running, q \in Running :
        /\ r.handler = "start"
        /\ r.pc = "done"
        /\ q.pc = "await_delivery"
        /\ r.update.sender \in q.visited
        /\ Cardinality(USERS) = q.si_used
        /\ Cardinality(USERS) = 2

\* C8: broadcast (text, photo or video), stats and panel from anyone but the
\* operator send nothing to anybody and leave the registry as it is.
C8_NonOperatorIgnored ==
    /\ [](\A r \in Running :
            (r.handler \in {"broadcast", "stats", "admin_panel"} /\ r.update.sender # ADMIN_ID)
                => r.pc = "done" /\ r.sent = <<>>)
    /\ [][\A r \in BagToSet(tasks') :
            (/\ Finished(r)
             /\ r.handler \in {"broadcast", "stats", "admin_panel"}
             /\ r.update.sender # ADMIN_ID) => USERS' = USERS]_vars

C8_Witness ==
    \E r \in Running :
        /\ r.handler = "broadcast"
        /\ r.update.cmd = "photo"
        /\ r.update.sender # ADMIN_ID
        /\ r.pc = "done"
        /\ Cardinality(USERS) = 2

\* C9: when the extraction returned and the file is larger than 45 MB, no
\* document is sent, the user gets the size warning and the file stays on
\* disk; and no other exit after a successful download leaves the file there.
C9_OnlyOversizeLeavesFile ==
    \A r \in Running :
        (Downloaded(r) /\ Finished(r))
            => /\ getsize_mb(r.path) > MAX_SIZE_MB =>
                    /\ NumDocs(r) = 0
                    /\ Last(r.sent) = TooLargeMsg(r.update.sender, getsize_mb(r.path))
                    /\ r.path \in files
               /\ r.path \in files => getsize_mb(r.path) > MAX_SIZE_MB

\* C10: /stats from the operator answers with the number of distinct users
\* who have sent start so far; from anyone else it answers nothing.
C10_StatsCountsRegistry ==
    \A r \in Running :
        (r.handler = "stats" /\ Finished(r))
            => /\ r.pc = "done"
               /\ r.sent = IF r.update.sender = ADMIN_ID
                           THEN <<StatsMsg(ADMIN_ID, Cardinality(started))>>
                           ELSE <<>>

\* the operator, who has sent start, asks for stats after one more user has
\* sent start and while a download is in flight
C10_Witness ==
    \E r \in Running, q \in Running :
        /\ r.handler = "stats"
        /\ r.update.sender = ADMIN_ID
        /\ r.pc = "done"
        /\ started = {ADMIN_ID, "1001"}
        /\ q.pc = "in_executor"

=============================================================================
